---- MODULE Spec2Model ----
(***************************************************************************)
(* cobra-daemon: one lifecycle contract (Install, Delete, Start, Stop,     *)
(* GetConfig, Query) over three backends: WindowsTask (schtasks.exe),      *)
(* Daemontools (svc, svstat) and RCDaemon (rcctl).                         *)
(*                                                                         *)
(* Every handler is one action.  A handler is a sequence of sub-steps      *)
(* (file-system calls and control-utility invocations); each sub-step is   *)
(* appended to the handler's trace with its outcome, and the handler       *)
(* returns at the first failed sub-step exactly where the Go code has      *)
(* `if err != nil { return ... }`.  A sub-step fails when the host state   *)
(* makes the call fail (schtasks /RUN of a task that does not exist) or    *)
(* when the environment makes it fail (the per-call input `fault`: the     *)
(* utility cannot be run, the disk is full, permission is denied).         *)
(*                                                                         *)
(* The control utilities act as documented and at once: schtasks /END and  *)
(* rcctl stop exit 0 on a service that is not running, svc and svstat exit *)
(* 0 whatever the directory, and rcctl get exits 1 for a service that is   *)
(* not enabled.                                                            *)
(*                                                                         *)
(* Spec is the lifecycle of one service on one host.  SpecFn calls single  *)
(* functions (NewDaemon, os.Expand with a backend's mapping, the output    *)
(* parsers, the process invoker, the CLI query command) once on inputs     *)
(* drawn from bounded sets, the utilities answering anything.              *)
(*                                                                         *)
(* Text (file contents, utility output, paths) is a sequence of atoms;     *)
(* concatenation is \o, so a + b in Go is a \o b here.                     *)
(***************************************************************************)
EXTENDS Integers, Sequences, FiniteSets, TLC

VARIABLES
  backend,      \* runtime.GOOS as selected by NewDaemon: fixed after construction
  Executable,   \* the command path handed to NewDaemon
  \* ---- Windows Task Scheduler host state
  task,         \* the scheduled task entry \<Name> exists
  taskXml,      \* the XML the task was registered with
  taskRunning,  \* an instance of the task is running
  tempDir,      \* Install's private temporary directory exists
  tempXml,      \* contents of <tempDir>/task.xml
  \* ---- daemontools host state
  ctlDir,       \* /var/svc.d/<Name> and its log subdirectory exist
  runFile,      \* contents of /var/svc.d/<Name>/run
  logRunFile,   \* contents of /var/svc.d/<Name>/log/run
  downFile,     \* /var/svc.d/<Name>/down exists
  symlink,      \* /etc/service/<Name> -> /var/svc.d/<Name> exists
  logDir,       \* /var/log/<Name> exists
  svcUp,        \* the supervised service is up
  logUp,        \* the log supervisor's service is up
  \* ---- rc.d host state
  rcFile,       \* contents of /etc/rc.d/<Name>
  rcEnabled,    \* rcctl enable has been applied (flags are not NO)
  rcRunning,    \* the rc daemon is running
  \* ---- file system shared by the two Unix backends
  bin,          \* contents of the executable files, by path
  \* ---- observation
  last,         \* the most recent call: operation, phase before it, what it returned
  probe,        \* the most recent call of a single function on chosen inputs
  procs         \* two concurrent invocations: where each one is, and their locals

hostVars == <<task, taskXml, taskRunning, tempDir, tempXml, ctlDir, runFile,
              logRunFile, downFile, symlink, logDir, svcUp, logUp,
              rcFile, rcEnabled, rcRunning, bin>>
vars == <<backend, Executable, hostVars, last, probe, procs>>

Backends == {"windows", "linux", "openbsd"}

NoErr == "nil"
NoFault == "none"
NoFile == <<>>

(***************************************************************************)
(* Text helpers                                                            *)
(***************************************************************************)
\* strings.Contains on texts: sub occurs as a contiguous run of text
Contains(text, sub) ==
  \E i \in 0..(Len(text) - Len(sub)) : SubSeq(text, i + 1, i + Len(sub)) = sub

\* unicode.IsSpace on the atoms used here
IsSpace(a) == a \in {" ", "\n", "\t", "\r"}

\* strings.TrimSpace
RECURSIVE TrimLeft(_)
TrimLeft(text) ==
  IF text # <<>> /\ IsSpace(Head(text)) THEN TrimLeft(Tail(text)) ELSE text

RECURSIVE TrimRight(_)
TrimRight(text) ==
  IF text # <<>> /\ IsSpace(text[Len(text)])
    THEN TrimRight(SubSeq(text, 1, Len(text) - 1))
    ELSE text

TrimSpace(text) == TrimRight(TrimLeft(text))

\* strings.Split(text, sep): always at least one piece
RECURSIVE Split(_, _)
Split(text, sep) ==
  IF \A i \in 1..Len(text) : text[i] # sep
    THEN <<text>>
    ELSE LET i == CHOOSE k \in 1..Len(text) :
                    text[k] = sep /\ \A j \in 1..(k - 1) : text[j] # sep
         IN  <<SubSeq(text, 1, i - 1)>> \o Split(SubSeq(text, i + 1, Len(text)), sep)

\* strings.Fields(text): the maximal runs of non-space atoms
RECURSIVE Fields(_)
Fields(text) ==
  LET t == TrimLeft(text) IN
  IF t = <<>> THEN <<>>
  ELSE IF \A i \in 1..Len(t) : ~IsSpace(t[i]) THEN <<t>>
  ELSE LET i == CHOOSE k \in 1..Len(t) :
                  IsSpace(t[k]) /\ \A j \in 1..(k - 1) : ~IsSpace(t[j])
       IN  <<SubSeq(t, 1, i - 1)>> \o Fields(SubSeq(t, i + 1, Len(t)))

\* strings.Join(list, sep)
RECURSIVE Join(_, _)
Join(list, sep) ==
  IF list = <<>> THEN <<>>
  ELSE IF Len(list) = 1 THEN list[1]
  ELSE list[1] \o <<sep>> \o Join(Tail(list), sep)

(***************************************************************************)
(* The service definition (constructor arguments and derived fields)       *)
(***************************************************************************)
Name == <<"svc">>
Username == <<"daemon">>
Uid == <<"1000">>
HomeDir == <<"/home/", "daemon">>
Dir == <<"/home/", "svc">>
DaemonArgs == << <<"server">> >>

\* The paths the command can be given as: inside and outside /usr/local/bin
ExecutablePaths == { <<"/usr/local/bin/", "app">>, <<"/opt/", "app">> }

\* filepath.Split(command): the last path element
Basename(path) == <<path[Len(path)]>>

\* filepath.Join("/usr/local/bin", basename)
serviceBin == <<"/usr/local/bin/">> \o Basename(Executable)

\* d.service: filepath.Join("/etc/service", name)
service == <<"/etc/service/">> \o Name

WindowsTask_LogFile == HomeDir \o <<"/logs/">> \o Name \o <<"-task.log">>
WindowsTask_Args == Join(DaemonArgs \o << <<"-L">>, WindowsTask_LogFile >>, " ")

Daemontools_Args == Join(DaemonArgs \o << <<"-L-">> >>, " ")

RCDaemon_LogFile == <<"/var/log/">> \o Name
RCDaemon_Args == Join(DaemonArgs \o << <<"-L">>, RCDaemon_LogFile >>, " ")

(***************************************************************************)
(* NewDaemon: the constructor.  Its input is what it is called with and    *)
(* what it finds on the host: goos (runtime.GOOS), currentOk (user.Current *)
(* succeeds), username and lookupOk (user.Lookup succeeds), dir, dirs (the *)
(* directories that exist), mkdirOk (os.MkdirAll of the logs directory     *)
(* succeeds) and command.                                                  *)
(***************************************************************************)
GOOS == {"windows", "openbsd", "linux", "darwin"}

\* user.Current() and user.Lookup(username)
CurrentUser == [Username |-> <<"root">>, Uid |-> <<"0">>, HomeDir |-> <<"/root/">>]
LookupUser == [Username |-> Username, Uid |-> Uid, HomeDir |-> HomeDir]

\* The nil CobraDaemon
NoDaemon ==
  [variant |-> "nil", Username |-> <<>>, Uid |-> <<>>, Executable |-> <<>>, Dir |-> <<>>]

\* The fields the three constructors fill in the same way
NewBackend(variant, taskUser, taskDir, command) ==
  [daemon |-> [variant |-> variant, Username |-> taskUser.Username,
               Uid |-> taskUser.Uid, Executable |-> command, Dir |-> taskDir],
   err |-> NoErr]

\* NewWindowsTask: creates <home>/logs first and fails if it cannot
NewWindowsTask(in, taskUser, taskDir) ==
  IF ~in.mkdirOk THEN [daemon |-> NoDaemon, err |-> "MkdirAll logs"]
  ELSE NewBackend("windows", taskUser, taskDir, in.command)

\* NewRCDaemon
NewRCDaemon(in, taskUser, taskDir) == NewBackend("openbsd", taskUser, taskDir, in.command)

\* NewDaemontools
NewDaemontools(in, taskUser, taskDir) == NewBackend("linux", taskUser, taskDir, in.command)

\* The part of NewDaemon after the user is known
NewDaemon_for(in, taskUser, taskDir) ==
  IF taskDir \notin in.dirs THEN [daemon |-> NoDaemon, err |-> "not directory"]
  ELSE CASE in.goos = "windows" -> NewWindowsTask(in, taskUser, taskDir)
         [] in.goos = "openbsd" -> NewRCDaemon(in, taskUser, taskDir)
         [] in.goos = "linux" -> NewDaemontools(in, taskUser, taskDir)
         [] OTHER -> [daemon |-> NoDaemon, err |-> "unsuported os"]

\* NewDaemon that takes the working directory on trust
NewDaemon_noDirCheck(in) ==
  IF ~in.currentOk THEN [daemon |-> NoDaemon, err |-> "user.Current"]
  ELSE IF in.username # <<>> /\ ~in.lookupOk
    THEN [daemon |-> NoDaemon, err |-> "user.Lookup"]
  ELSE NewDaemon_for([in EXCEPT !.dirs = @ \cup {in.dir, CurrentUser.HomeDir, HomeDir}],
                     IF in.username # <<>> THEN LookupUser ELSE CurrentUser,
                     IF in.dir # <<>> THEN in.dir
                     ELSE IF in.username # <<>> THEN LookupUser.HomeDir
                     ELSE CurrentUser.HomeDir)

\* NewDaemon
NewDaemon(in) ==
  IF ~in.currentOk THEN [daemon |-> NoDaemon, err |-> "user.Current"]
  ELSE IF in.username # <<>> /\ ~in.lookupOk
    THEN [daemon |-> NoDaemon, err |-> "user.Lookup"]
  ELSE NewDaemon_for(in,
                     IF in.username # <<>> THEN LookupUser ELSE CurrentUser,
                     IF in.dir # <<>> THEN in.dir
                     ELSE IF in.username # <<>> THEN LookupUser.HomeDir
                     ELSE CurrentUser.HomeDir)

\* The inputs NewDaemon is tried on
NewDaemonInputs ==
  [goos : GOOS, currentOk : BOOLEAN, username : {<<>>, Username}, lookupOk : BOOLEAN,
   dir : {<<>>, Dir, <<"/nonexistent/">>},
   dirs : SUBSET {Dir, HomeDir, CurrentUser.HomeDir},
   mkdirOk : BOOLEAN, command : ExecutablePaths]

\* The call the service of this model was constructed with, on platform goos
NewDaemonCall(goos, command) ==
  [goos |-> goos, currentOk |-> TRUE, username |-> Username, lookupOk |-> TRUE,
   dir |-> Dir, dirs |-> {Dir, HomeDir}, mkdirOk |-> TRUE, command |-> command]

(***************************************************************************)
(* Templates and os.Expand                                                 *)
(***************************************************************************)
Lit(a) == [lit |-> TRUE, v |-> a]
Var(k) == [lit |-> FALSE, v |-> k]

\* template/task.xml: the placeholders the Windows backend substitutes
xmlTemplate ==
  << Lit("<Task><UserId>"), Var("TASK_USER"), Lit("</UserId><Sid>"), Var("TASK_UID"),
     Lit("</Sid><Command>"), Var("TASK_BIN"), Lit("</Command><Arguments>"),
     Var("TASK_ARGS"), Lit("</Arguments><WorkingDirectory>"), Var("TASK_DIR"),
     Lit("</WorkingDirectory></Task>") >>

\* template/daemontools_run
runTemplate ==
  << Lit("#!/bin/sh # "), Var("TASK_NAME"), Lit("\n"), Lit("cd "), Var("TASK_DIR"),
     Lit("\n"), Lit("exec setuidgid "), Var("TASK_USER"), Lit(" "), Var("TASK_BIN"),
     Lit(" "), Var("TASK_ARGS"), Lit("\n") >>

\* template/daemontools_log
logTemplate ==
  << Lit("#!/bin/sh\n"), Lit("exec multilog t /var/log/"), Var("TASK_NAME"), Lit("\n") >>

\* template/rcfile
rcTemplate ==
  << Lit("#!/bin/ksh\n"), Lit("daemon=\""), Var("TASK_BIN"), Lit("\"\n"),
     Lit("daemon_flags=\""), Var("TASK_ARGS"), Lit("\"\n"),
     Lit("daemon_user=\""), Var("TASK_USER"), Lit("\" # uid "), Var("TASK_UID"), Lit("\n"),
     Lit("daemon_execdir=\""), Var("TASK_DIR"), Lit("\"\n"),
     Lit(". /etc/rc.d/rc.subr\n") >>

TemplateKeys ==
  {"TASK_NAME", "TASK_USER", "TASK_UID", "TASK_BIN", "TASK_ARGS", "TASK_DIR"}

\* Names a template can hold that no mapping has a case for
OtherKeys == {"TASK_GID", "HOME"}

\* os.Expand(template, mapping): every placeholder is replaced by mapping(key)
RECURSIVE Expand(_, _)
Expand(template, mapping) ==
  IF template = <<>> THEN <<>>
  ELSE LET tok == Head(template) IN
       (IF tok.lit THEN <<tok.v>> ELSE mapping[tok.v]) \o Expand(Tail(template), mapping)

(***************************************************************************)
(* The state a handler runs on: the host state plus the handler's locals   *)
(***************************************************************************)
\* What an external utility answers: how command.Run() ended ("ok": exit 0,
\* "exit": another exit status or a signal, "spawn": it could not be run), the
\* exit code ProcessState.ExitCode() gives, and what it printed.  A handler
\* normally runs against the host (NoReply: the utility answers from the host
\* state); a reply that is given stands for a utility answering anything.
NoReply == [given |-> FALSE, run |-> "ok", code |-> 0, stdout |-> <<>>, stderr |-> <<>>]

ReplyRun(s, hostRun) == IF s.reply.given THEN s.reply.run ELSE hostRun
ReplyCode(s, hostCode) == IF s.reply.given THEN s.reply.code ELSE hostCode
ReplyStdout(s, hostText) == IF s.reply.given THEN s.reply.stdout ELSE hostText
ReplyStderr(s, hostText) == IF s.reply.given THEN s.reply.stderr ELSE hostText

\* err.Error() of what command.Run() returned
RunError(run) ==
  IF run = "spawn" THEN <<"exec: ", "executable file not found">> ELSE <<"exit status ", "1">>

RunWith(fault, reply) ==
  [ task |-> task, taskXml |-> taskXml, taskRunning |-> taskRunning,
    tempDir |-> tempDir, tempXml |-> tempXml,
    ctlDir |-> ctlDir, runFile |-> runFile, logRunFile |-> logRunFile,
    downFile |-> downFile, symlink |-> symlink, logDir |-> logDir,
    svcUp |-> svcUp, logUp |-> logUp,
    rcFile |-> rcFile, rcEnabled |-> rcEnabled, rcRunning |-> rcRunning,
    bin |-> bin,
    fault |-> fault,     \* the sub-step the environment fails in this call
    reply |-> reply,     \* the answer of the utility, when the environment gives one
    err |-> NoErr,       \* err as last assigned: the failed sub-step, or nil
    errText |-> <<>>,    \* the message of the error the process invoker built
    trace |-> <<>>,      \* the sub-steps executed, with their outcomes
    running |-> FALSE,   \* the boolean a status probe returned
    out |-> <<>> ]       \* the text a call returned

Run(fault) == RunWith(fault, NoReply)

\* One sub-step.  ok: the host state lets it succeed; t: the state after its
\* effect.  It fails, without effect, when ~ok or when the environment fails it.
Try(s, step, ok, t) ==
  IF ok /\ s.fault # step
    THEN [t EXCEPT !.trace = Append(s.trace, [step |-> step, ok |-> TRUE, env |-> FALSE]),
                   !.err = NoErr]
    ELSE [s EXCEPT !.trace = Append(s.trace,
                                    [step |-> step, ok |-> FALSE, env |-> (s.fault = step)]),
                   !.err = step]

\* `if err != nil { return ... }` after a sub-step: the rest of the handler runs
\* on the state the sub-step left, and only when the sub-step did not fail.
\* (x ranges over the one state s, so that s is computed once.)
Then(s, rest(_)) ==
  CHOOSE r \in { (IF x.err # NoErr THEN x ELSE rest(x)) : x \in {s} } : TRUE

(***************************************************************************)
(* Windows Task Scheduler backend                                          *)
(***************************************************************************)
\* `"\` + t.Name + `"`
QuotedTaskName == <<"\"", "\\">> \o Name \o <<"\"">>

\* schtasks.exe: what the utility prints on stdout for an existing task
schtasksStdout(s, step) ==
  CASE step = "QUERY /XML" -> s.taskXml \o <<"\r", "\n">>
    [] step = "QUERY /FO" ->
         QuotedTaskName \o <<",", "\"", "N/A", "\"", ",", "\"">>
           \o <<IF s.taskRunning THEN "Running" ELSE "Ready">> \o <<"\"", "\r", "\n">>
    [] OTHER -> <<"SUCCESS", "\r", "\n">>

\* schtasks.exe: whether the verb succeeds on the host state.  CREATE needs the
\* XML file and no task of that name; every other verb needs the task.
schtasksOk(s, step) ==
  IF step = "CREATE /XML" THEN ~s.task /\ s.tempXml # NoFile ELSE s.task

\* schtasks.exe: the effect of a verb that succeeded.  END stops the running
\* instance; DELETE /F removes the task entry and nothing else.
schtasksEffect(s, step) ==
  CASE step = "CREATE /XML" ->
         [s EXCEPT !.task = TRUE, !.taskXml = s.tempXml, !.taskRunning = FALSE]
    [] step = "RUN" -> [s EXCEPT !.taskRunning = TRUE]
    [] step = "END" -> [s EXCEPT !.taskRunning = FALSE]
    [] step = "DELETE /F" -> [s EXCEPT !.task = FALSE, !.taskXml = NoFile]
    [] OTHER -> s

\* The utility's command line "/" + cmd, "/TN", t.Name, args..., named by its
\* verb and first argument
schtasksStep(cmd, args) == IF args = <<>> THEN cmd ELSE cmd \o " " \o args[1]

\* schtasks.exe: what the utility prints on stderr when a verb fails
schtasksStderr(s, step) ==
  IF schtasksOk(s, step) THEN <<>>
  ELSE <<"ERROR: ", "The system cannot find the file specified.", "\r", "\n">>

\* How command.Run() of schtasks.exe ends
schtasksRun(s, step) ==
  ReplyRun(s, IF s.fault = step THEN "spawn"
              ELSE IF schtasksOk(s, step) THEN "ok" ELSE "exit")

\* Process invoker that always returns the run error and never the stderr text
taskScheduler_rawErr(s, cmd, args) ==
  LET step == schtasksStep(cmd, args)
      ostr == TrimSpace(ReplyStdout(s, schtasksStdout(s, step)))
  IN  CHOOSE r \in
        { (IF x.err # NoErr
             THEN [x EXCEPT !.out = <<>>, !.errText = RunError(schtasksRun(s, step))]
             ELSE [x EXCEPT !.out = ostr])
          : x \in { Try(s, step, schtasksRun(s, step) = "ok",
                        schtasksEffect(s, step)) } } : TRUE

\* (*WindowsTask).taskScheduler: run schtasks.exe /cmd /TN name args...; when
\* the run failed return "" and an error (the trimmed stderr as its message, or
\* the run error when stderr is empty), else the trimmed stdout and nil
taskScheduler(s, cmd, args) ==
  LET step == schtasksStep(cmd, args)
      estr == TrimSpace(ReplyStderr(s, IF s.fault = step THEN <<>>
                                       ELSE schtasksStderr(s, step)))
      ostr == TrimSpace(ReplyStdout(s, schtasksStdout(s, step)))
  IN  CHOOSE r \in
        { (IF x.err # NoErr
             THEN [x EXCEPT !.out = <<>>,
                            !.errText = IF estr # <<>> THEN estr
                                        ELSE RunError(schtasksRun(s, step))]
             ELSE [x EXCEPT !.out = ostr])
          : x \in { Try(s, step, schtasksRun(s, step) = "ok",
                        schtasksEffect(s, step)) } } : TRUE

\* The mapping closure of (*WindowsTask).Install
WindowsTask_mapping ==
  [key \in TemplateKeys \cup OtherKeys |->
     CASE key = "TASK_USER" -> Username
       [] key = "TASK_UID" -> Uid
       [] key = "TASK_BIN" -> Executable
       [] key = "TASK_ARGS" -> WindowsTask_Args
       [] key = "TASK_DIR" -> Dir
       [] OTHER -> <<"UNEXPANDED_XML_PARAM_", key>>]

\* The deferred os.RemoveAll(tempDir)
WindowsTask_removeTemp(s) ==
  [s EXCEPT !.tempDir = FALSE, !.tempXml = NoFile,
            !.trace = Append(s.trace, [step |-> "defer RemoveAll", ok |-> TRUE, env |-> FALSE])]

\* Install that removes the temporary directory on the success path only
WindowsTask_Install_noDefer(s) ==
  Then(Try(s, "MkdirTemp", TRUE, [s EXCEPT !.tempDir = TRUE]), LAMBDA s1 :
  Then(Try(s1, "WriteFile task.xml", TRUE,
           [s1 EXCEPT !.tempXml = Expand(xmlTemplate, WindowsTask_mapping)]), LAMBDA s2 :
  Then(taskScheduler(s2, "CREATE", <<"/XML">>), LAMBDA s3 :
  WindowsTask_removeTemp(s3))))

\* (*WindowsTask).Install
WindowsTask_Install(s) ==
  Then(Try(s, "MkdirTemp", TRUE, [s EXCEPT !.tempDir = TRUE]), LAMBDA s1 :
  WindowsTask_removeTemp(
    Then(Try(s1, "WriteFile task.xml", TRUE,
             [s1 EXCEPT !.tempXml = Expand(xmlTemplate, WindowsTask_mapping)]), LAMBDA s2 :
    taskScheduler(s2, "CREATE", <<"/XML">>))))

\* Delete that drops the END and goes straight to the forced DELETE
WindowsTask_Delete_noEnd(s) == taskScheduler(s, "DELETE", <<"/F">>)

\* Delete that treats END as best effort: its failure is dropped
WindowsTask_Delete_bestEffort(s) ==
  Then([taskScheduler(s, "END", <<>>) EXCEPT !.err = NoErr], LAMBDA s1 :
  taskScheduler(s1, "DELETE", <<"/F">>))

\* (*WindowsTask).Delete
WindowsTask_Delete(s) ==
  Then(taskScheduler(s, "END", <<>>), LAMBDA s1 :
  taskScheduler(s1, "DELETE", <<"/F">>))

\* (*WindowsTask).Start
WindowsTask_Start(s) == taskScheduler(s, "RUN", <<>>)

\* (*WindowsTask).Stop
WindowsTask_Stop(s) == taskScheduler(s, "END", <<>>)

\* (*WindowsTask).GetConfig
WindowsTask_GetConfig(s) == taskScheduler(s, "QUERY", <<"/XML", "ONE">>)

\* Parse that reads the first line and ignores any further line
WindowsTask_parse_firstLine(stdout) ==
  LET fields == Split(TrimSpace(Split(stdout, "\n")[1]), ",")
  IN  IF Len(fields) # 3 THEN [ok |-> FALSE, running |-> FALSE]
      ELSE IF fields[1] # QuotedTaskName THEN [ok |-> FALSE, running |-> FALSE]
      ELSE [ok |-> TRUE, running |-> (fields[3] = <<"\"", "Running", "\"">>)]

\* The parse of (*WindowsTask).Query: [ok, running] for a trimmed stdout
WindowsTask_parse(stdout) ==
  LET lines == Split(stdout, "\n")
      fields == IF Len(lines) = 1 THEN Split(lines[1], ",") ELSE <<>>
  IN  IF Len(lines) # 1 \/ Len(fields) # 3 THEN [ok |-> FALSE, running |-> FALSE]
      ELSE IF fields[1] # QuotedTaskName THEN [ok |-> FALSE, running |-> FALSE]
      ELSE [ok |-> TRUE, running |-> (fields[3] = <<"\"", "Running", "\"">>)]

\* (*WindowsTask).Query
WindowsTask_Query(s) ==
  Then(taskScheduler(s, "QUERY", <<"/FO", "csv", "/NH">>), LAMBDA s1 :
  Try(s1, "parse", WindowsTask_parse(s1.out).ok,
      [s1 EXCEPT !.running = WindowsTask_parse(s1.out).running]))

(***************************************************************************)
(* daemontools backend                                                     *)
(***************************************************************************)
\* The mapping closure of (*Daemontools).templateData
Daemontools_mapping ==
  [key \in TemplateKeys \cup OtherKeys |->
     CASE key = "TASK_NAME" -> Name
       [] key = "TASK_USER" -> Username
       [] key = "TASK_UID" -> Uid
       [] key = "TASK_BIN" -> serviceBin
       [] key = "TASK_ARGS" -> Daemontools_Args
       [] key = "TASK_DIR" -> Dir
       [] OTHER -> <<"${", key, "}">>]

\* (*Daemontools).templateData
templateData(template) == Expand(template, Daemontools_mapping)

\* filepath.Join(d.service, "log")
serviceLog == service \o <<"/log">>

\* svstat: what the utility prints for a directory; it exits 0 in every case
svstatStdout(s, serviceDir) ==
  LET up == IF serviceDir = service THEN s.svcUp ELSE s.logUp IN
  serviceDir \o <<":", " ">> \o
    (IF ~s.symlink THEN <<"unable", " ", "to", " ", "chdir:", " ", "file does not exist">>
     ELSE IF up THEN <<"up", " ", "(pid 123)", " ", "5", " ", "seconds">>
     ELSE <<"down", " ", "5", " ", "seconds">>) \o <<"\n">>

\* Parse that does not compare the first field with the queried directory
svstat_parse_anyDir(stdout, serviceDir) ==
  LET fields == Fields(TrimSpace(stdout))
  IN  IF Len(fields) < 2 THEN [ok |-> FALSE, running |-> FALSE]
      ELSE [ok |-> TRUE, running |-> (fields[2] = <<"up">>)]

\* The parse of (*Daemontools).svstat: [ok, running] for the utility's stdout
svstat_parse(stdout, serviceDir) ==
  LET status == TrimSpace(stdout)
      fields == Fields(status)
  IN  IF Len(fields) < 2 THEN [ok |-> FALSE, running |-> FALSE]
      ELSE IF fields[1] # serviceDir \o <<":">> THEN [ok |-> FALSE, running |-> FALSE]
      ELSE [ok |-> TRUE, running |-> (fields[2] = <<"up">>)]

\* (*Daemontools).svstat
svstat(s, serviceDir) ==
  Then(Try([s EXCEPT !.running = FALSE],
           IF serviceDir = service THEN "svstat" ELSE "svstat log",
           ReplyRun(s, "ok") = "ok", [s EXCEPT !.running = FALSE]), LAMBDA s1 :
  Try(s1, "parse",
      svstat_parse(ReplyStdout(s1, svstatStdout(s1, serviceDir)), serviceDir).ok,
      [s1 EXCEPT !.running =
         svstat_parse(ReplyStdout(s1, svstatStdout(s1, serviceDir)), serviceDir).running]))

\* svc -u / svc -d on a directory: the utility exits 0 in every case, and acts
\* only on a directory that exists
svc(s, flag, serviceDir) ==
  LET step == "svc " \o flag \o (IF serviceDir = service THEN "" ELSE " log")
      t == IF ~s.symlink THEN s
           ELSE IF serviceDir = service THEN [s EXCEPT !.svcUp = (flag = "-u")]
           ELSE [s EXCEPT !.logUp = (flag = "-u")]
  IN  Try(s, step, TRUE, t)

\* svscan on a new entry of /etc/service: it starts the supervise pair, which
\* brings the log service up, and the service itself unless a down file says no
svscan(s) == [s EXCEPT !.logUp = TRUE, !.svcUp = ~s.downFile]

\* (*Daemontools).enable: remove <service>/down if it is a file
enable(s) ==
  IF s.symlink /\ s.downFile
    THEN Try(s, "Remove down", TRUE, [s EXCEPT !.downFile = FALSE])
    ELSE s

\* (*Daemontools).disable: create <service>/down unless it is a file
disable(s) ==
  IF ~(s.symlink /\ s.downFile)
    THEN Try(s, "WriteFile service/down", s.symlink, [s EXCEPT !.downFile = TRUE])
    ELSE s

\* Install that forgets the down sentinel
Daemontools_Install_noDown(s) ==
  Then(Try(s, "Atoi", TRUE, s), LAMBDA s1 :
  Then(Try(s1, "MkdirAll /var/svc.d", TRUE, s1), LAMBDA s2 :
  Then(Try(s2, "MkdirAll log", TRUE, [s2 EXCEPT !.ctlDir = TRUE]), LAMBDA s3 :
  Then(Try(s3, "Chown", TRUE, s3), LAMBDA s4 :
  Then(Try(s4, "WriteFile run", TRUE,
           [s4 EXCEPT !.runFile = templateData(runTemplate)]), LAMBDA s5 :
  Then(Try(s5, "WriteFile log/run", TRUE,
           [s5 EXCEPT !.logRunFile = templateData(logTemplate)]), LAMBDA s6 :
  Then(Try(s6, "Open", s6.bin[Executable] # "absent", s6), LAMBDA s7 :
  Then(Try(s7, "OpenFile", TRUE, [s7 EXCEPT !.bin[serviceBin] = "empty"]), LAMBDA s8 :
  Then(Try(s8, "Copy", TRUE, [s8 EXCEPT !.bin[serviceBin] = s8.bin[Executable]]),
       LAMBDA s9 :
  Then(IF ~s9.logDir
         THEN Try(s9, "Mkdir logdir", TRUE, [s9 EXCEPT !.logDir = TRUE])
         ELSE s9, LAMBDA s10 :
  Try(s10, "Symlink", ~s10.symlink, svscan([s10 EXCEPT !.symlink = TRUE]))))))))))))

\* Install that looks for the supervision symlink before it writes anything
Daemontools_Install_checkFirst(s) ==
  Then(Try(s, "Symlink", ~s.symlink, s), LAMBDA s0 :
  Then(Try([s0 EXCEPT !.trace = <<>>], "Atoi", TRUE, [s0 EXCEPT !.trace = <<>>]),
       LAMBDA s1 :
  Then(Try(s1, "MkdirAll /var/svc.d", TRUE, s1), LAMBDA s2 :
  Then(Try(s2, "MkdirAll log", TRUE, [s2 EXCEPT !.ctlDir = TRUE]), LAMBDA s3 :
  Then(Try(s3, "Chown", TRUE, s3), LAMBDA s4 :
  Then(Try(s4, "WriteFile run", TRUE,
           [s4 EXCEPT !.runFile = templateData(runTemplate)]), LAMBDA s5 :
  Then(Try(s5, "WriteFile log/run", TRUE,
           [s5 EXCEPT !.logRunFile = templateData(logTemplate)]), LAMBDA s6 :
  Then(Try(s6, "Open", s6.bin[Executable] # "absent", s6), LAMBDA s7 :
  Then(Try(s7, "OpenFile", TRUE, [s7 EXCEPT !.bin[serviceBin] = "empty"]), LAMBDA s8 :
  Then(Try(s8, "Copy", TRUE, [s8 EXCEPT !.bin[serviceBin] = s8.bin[Executable]]),
       LAMBDA s9 :
  Then(IF ~s9.logDir
         THEN Try(s9, "Mkdir logdir", TRUE, [s9 EXCEPT !.logDir = TRUE])
         ELSE s9, LAMBDA s10 :
  Then(Try(s10, "WriteFile down", TRUE, [s10 EXCEPT !.downFile = TRUE]), LAMBDA s11 :
  Try(s11, "Symlink", ~s11.symlink, svscan([s11 EXCEPT !.symlink = TRUE]))))))))))))))

\* (*Daemontools).Install
Daemontools_Install(s) ==
  Then(Try(s, "Atoi", TRUE, s), LAMBDA s1 :
  Then(Try(s1, "MkdirAll /var/svc.d", TRUE, s1), LAMBDA s2 :
  Then(Try(s2, "MkdirAll log", TRUE, [s2 EXCEPT !.ctlDir = TRUE]), LAMBDA s3 :
  Then(Try(s3, "Chown", TRUE, s3), LAMBDA s4 :
  Then(Try(s4, "WriteFile run", TRUE,
           [s4 EXCEPT !.runFile = templateData(runTemplate)]), LAMBDA s5 :
  Then(Try(s5, "WriteFile log/run", TRUE,
           [s5 EXCEPT !.logRunFile = templateData(logTemplate)]), LAMBDA s6 :
  Then(Try(s6, "Open", s6.bin[Executable] # "absent", s6), LAMBDA s7 :
  Then(Try(s7, "OpenFile", TRUE, [s7 EXCEPT !.bin[serviceBin] = "empty"]), LAMBDA s8 :
  Then(Try(s8, "Copy", TRUE, [s8 EXCEPT !.bin[serviceBin] = s8.bin[Executable]]),
       LAMBDA s9 :
  Then(IF ~s9.logDir
         THEN Try(s9, "Mkdir logdir", TRUE, [s9 EXCEPT !.logDir = TRUE])
         ELSE s9, LAMBDA s10 :
  Then(Try(s10, "WriteFile down", TRUE, [s10 EXCEPT !.downFile = TRUE]), LAMBDA s11 :
  Try(s11, "Symlink", ~s11.symlink, svscan([s11 EXCEPT !.symlink = TRUE])))))))))))))

\* Stop that probes first and refuses a service that is not up
Daemontools_Stop_strict(s) ==
  Then(svstat(s, service), LAMBDA s1 :
  IF s1.running THEN svc(s1, "-d", service) ELSE Try(s1, "svc -d", FALSE, s1))

\* Stop that puts the down sentinel back after the down signal
Daemontools_Stop_disabling(s) ==
  Then(svc(s, "-d", service), LAMBDA s1 :
  disable(s1))

\* Stop that sends the down signal to the log supervisor, not to the service
Daemontools_Stop_wrongDir(s) == svc(s, "-d", serviceLog)

\* (*Daemontools).Stop
Daemontools_Stop(s) == svc(s, "-d", service)

\* Delete that leaves the control directory behind
Daemontools_Delete_keepCtl(s) ==
  Then(svstat(s, service), LAMBDA s1 :
  Then(IF s1.running THEN svc(s1, "-d", service) ELSE s1, LAMBDA s2 :
  Then(svstat(s2, serviceLog), LAMBDA s3 :
  Then(IF s3.running THEN svc(s3, "-d", serviceLog) ELSE s3, LAMBDA s4 :
  Try(s4, "RemoveAll service", TRUE, [s4 EXCEPT !.symlink = FALSE])))))

\* os.RemoveAll(d.service): removes the supervision symlink; what supervise
\* has started keeps running
Daemontools_removeService(s) ==
  Try(s, "RemoveAll service", TRUE, [s EXCEPT !.symlink = FALSE])

\* os.RemoveAll(filepath.Join("/var/svc.d", d.Name))
Daemontools_removeCtl(s) ==
  Try(s, "RemoveAll /var/svc.d", TRUE,
      [s EXCEPT !.ctlDir = FALSE, !.runFile = NoFile, !.logRunFile = NoFile,
                !.downFile = FALSE])

\* Delete that signals both services down without asking whether they run
Daemontools_Delete_blind(s) ==
  Then(svc(s, "-d", service), LAMBDA s1 :
  Then(svc(s1, "-d", serviceLog), LAMBDA s2 :
  Then(Daemontools_removeService(s2), LAMBDA s3 :
  Daemontools_removeCtl(s3))))

\* (*Daemontools).Delete
Daemontools_Delete(s) ==
  Then(svstat(s, service), LAMBDA s1 :
  Then(IF s1.running THEN Daemontools_Stop(s1) ELSE s1, LAMBDA s2 :
  Then(svstat(s2, serviceLog), LAMBDA s3 :
  Then(IF s3.running THEN svc(s3, "-d", serviceLog) ELSE s3, LAMBDA s4 :
  Then(Daemontools_removeService(s4), LAMBDA s5 :
  Daemontools_removeCtl(s5))))))

\* (*Daemontools).Start
Daemontools_Start(s) ==
  Then(enable(s), LAMBDA s1 :
  svc(s1, "-u", service))

\* (*Daemontools).GetConfig
Daemontools_GetConfig(s) ==
  Try(s, "ReadFile run", s.symlink /\ s.runFile # NoFile, [s EXCEPT !.out = s.runFile])

\* (*Daemontools).Query
Daemontools_Query(s) == svstat(s, service)

(***************************************************************************)
(* rc.d backend                                                            *)
(***************************************************************************)
\* Mapping that expands a name it has no case for to nothing, as os.Getenv would
RCDaemon_mapping_getenv ==
  [key \in TemplateKeys \cup OtherKeys |->
     CASE key = "TASK_USER" -> Username
       [] key = "TASK_UID" -> Uid
       [] key = "TASK_BIN" -> serviceBin
       [] key = "TASK_ARGS" -> RCDaemon_Args
       [] key = "TASK_DIR" -> Dir
       [] OTHER -> <<>>]

\* The mapping closure of (*RCDaemon).Install
RCDaemon_mapping ==
  [key \in TemplateKeys \cup OtherKeys |->
     CASE key = "TASK_USER" -> Username
       [] key = "TASK_UID" -> Uid
       [] key = "TASK_BIN" -> serviceBin
       [] key = "TASK_ARGS" -> RCDaemon_Args
       [] key = "TASK_DIR" -> Dir
       [] OTHER -> <<"${", key, "}">>]

\* rcctl <command> <name>: whether the command exits 0 on the host state.  Every
\* command needs the rc script; start needs the service enabled (flags not NO),
\* get exits 1 for a service that is not enabled, check exits 0 iff it runs.
rcctlOk(s, command) ==
  /\ s.rcFile # NoFile
  /\ command \in {"start", "get"} => s.rcEnabled
  /\ command = "check" => s.rcRunning

\* rcctl <command> <name>: the effect of a command that exited 0
rcctlEffect(s, command) ==
  CASE command = "enable" -> [s EXCEPT !.rcEnabled = TRUE]
    [] command = "disable" -> [s EXCEPT !.rcEnabled = FALSE]
    [] command = "start" -> [s EXCEPT !.rcRunning = TRUE]
    [] command = "stop" -> [s EXCEPT !.rcRunning = FALSE]
    [] OTHER -> s

\* rcctl get <name>: the key/value listing of the service's rc.conf variables
rcctlGetStdout(s) ==
  Name \o <<"_class=", "daemon", "\n">> \o Name \o <<"_flags=">> \o RCDaemon_Args
    \o <<"\n">> \o Name \o <<"_rtable=", "0", "\n">> \o Name \o <<"_timeout=", "30", "\n">>
    \o Name \o <<"_user=">> \o Username \o <<"\n">>

\* (*RCDaemon).rcctl
rcctl(s, command) ==
  Try(s, "rcctl " \o command, rcctlOk(s, command), rcctlEffect(s, command))

\* Install that writes the rc script first and copies the executable after it
RCDaemon_Install_rcFirst(s) ==
  Then(Try(s, "WriteFile rc", TRUE,
           [s EXCEPT !.rcFile = Expand(rcTemplate, RCDaemon_mapping)]), LAMBDA s1 :
  IF Executable # serviceBin
    THEN Then(Try(s1, "Open", s1.bin[Executable] # "absent", s1), LAMBDA s2 :
         Then(Try(s2, "OpenFile", TRUE, [s2 EXCEPT !.bin[serviceBin] = "empty"]),
              LAMBDA s3 :
         Try(s3, "Copy", TRUE, [s3 EXCEPT !.bin[serviceBin] = s3.bin[Executable]])))
    ELSE s1)

\* (*RCDaemon).Install
RCDaemon_Install(s) ==
  Then(IF Executable # serviceBin
         THEN Then(Try(s, "Open", s.bin[Executable] # "absent", s), LAMBDA s1 :
              Then(Try(s1, "OpenFile", TRUE, [s1 EXCEPT !.bin[serviceBin] = "empty"]),
                   LAMBDA s2 :
              Try(s2, "Copy", TRUE, [s2 EXCEPT !.bin[serviceBin] = s2.bin[Executable]])))
         ELSE s, LAMBDA s3 :
  Try(s3, "WriteFile rc", TRUE,
      [s3 EXCEPT !.rcFile = Expand(rcTemplate, RCDaemon_mapping)]))

\* Delete that removes the rc script before it stops the daemon
RCDaemon_Delete_removeFirst(s) ==
  Then(Try(s, "Remove rc", s.rcFile # NoFile, [s EXCEPT !.rcFile = NoFile]), LAMBDA s1 :
  Then(rcctl(s1, "stop"), LAMBDA s2 :
  rcctl(s2, "disable")))

\* Delete that goes on after a failed stop
RCDaemon_Delete_ignoreStop(s) ==
  Then([rcctl(s, "stop") EXCEPT !.err = NoErr], LAMBDA s1 :
  Then(rcctl(s1, "disable"), LAMBDA s2 :
  Try(s2, "Remove rc", s2.rcFile # NoFile, [s2 EXCEPT !.rcFile = NoFile])))

\* (*RCDaemon).Delete
RCDaemon_Delete(s) ==
  Then(rcctl(s, "stop"), LAMBDA s1 :
  Then(rcctl(s1, "disable"), LAMBDA s2 :
  Try(s2, "Remove rc", s2.rcFile # NoFile, [s2 EXCEPT !.rcFile = NoFile])))

\* Start that enables the service and forgets to start it
RCDaemon_Start_enableOnly(s) == rcctl(s, "enable")

\* Start that writes the rc script when there is none
RCDaemon_Start_writeRc(s) ==
  Then(IF s.rcFile = NoFile
         THEN Try(s, "WriteFile rc", TRUE,
                  [s EXCEPT !.rcFile = Expand(rcTemplate, RCDaemon_mapping)])
         ELSE s, LAMBDA s1 :
  Then(rcctl(s1, "enable"), LAMBDA s2 :
  rcctl(s2, "start")))

\* (*RCDaemon).Start
RCDaemon_Start(s) ==
  Then(rcctl(s, "enable"), LAMBDA s1 :
  rcctl(s1, "start"))

\* Stop that tries the stop verb a second time when the first try failed
RCDaemon_Stop_retry(s) ==
  CHOOSE r \in { (IF x.err # NoErr THEN rcctl(x, "stop") ELSE x)
                 : x \in {rcctl(s, "stop")} } : TRUE

\* (*RCDaemon).Stop
RCDaemon_Stop(s) == rcctl(s, "stop")

\* GetConfig that enables the service so that rcctl get exits 0
RCDaemon_GetConfig_enabling(s) ==
  Then(rcctl(s, "enable"), LAMBDA s1 :
  Then(rcctl(s1, "get"), LAMBDA s2 :
  [s2 EXCEPT !.out = rcctlGetStdout(s2)]))

\* (*RCDaemon).GetConfig
RCDaemon_GetConfig(s) ==
  Then(rcctl(s, "get"), LAMBDA s1 :
  [s1 EXCEPT !.out = rcctlGetStdout(s1)])

\* How cmd.Run() of `rcctl check <name>` ends, and the exit code it leaves
rcctlCheckRun(s) == ReplyRun(s, IF rcctlOk(s, "check") THEN "ok" ELSE "exit")
rcctlCheckCode(s) == ReplyCode(s, IF rcctlOk(s, "check") THEN 0 ELSE 1)

\* Query that takes every failed run of the check verb for an error
RCDaemon_Query_strict(s) ==
  Then(Try(s, "rcctl check", rcctlCheckRun(s) = "ok", s), LAMBDA s1 :
  [s1 EXCEPT !.running = (rcctlCheckCode(s1) = 0)])

\* (*RCDaemon).Query: an exit status other than 0 is *exec.ExitError and means
\* "not running"; only a utility that could not be run is an error
RCDaemon_Query(s) ==
  Then(Try(s, "rcctl check", rcctlCheckRun(s) # "spawn", s), LAMBDA s1 :
  [s1 EXCEPT !.running = (rcctlCheckCode(s1) = 0)])

(***************************************************************************)
(* The lifecycle contract: NewDaemon fixes the backend, and every call of  *)
(* the CobraDaemon interface goes to that backend's handler                *)
(***************************************************************************)
Handler(op, s) ==
  CASE backend = "windows" ->
         (CASE op = "Install" -> WindowsTask_Install(s)
            [] op = "Delete" -> WindowsTask_Delete(s)
            [] op = "Start" -> WindowsTask_Start(s)
            [] op = "Stop" -> WindowsTask_Stop(s)
            [] op = "GetConfig" -> WindowsTask_GetConfig(s)
            [] op = "Query" -> WindowsTask_Query(s))
    [] backend = "linux" ->
         (CASE op = "Install" -> Daemontools_Install(s)
            [] op = "Delete" -> Daemontools_Delete(s)
            [] op = "Start" -> Daemontools_Start(s)
            [] op = "Stop" -> Daemontools_Stop(s)
            [] op = "GetConfig" -> Daemontools_GetConfig(s)
            [] op = "Query" -> Daemontools_Query(s))
    [] backend = "openbsd" ->
         (CASE op = "Install" -> RCDaemon_Install(s)
            [] op = "Delete" -> RCDaemon_Delete(s)
            [] op = "Start" -> RCDaemon_Start(s)
            [] op = "Stop" -> RCDaemon_Stop(s)
            [] op = "GetConfig" -> RCDaemon_GetConfig(s)
            [] op = "Query" -> RCDaemon_Query(s))

\* The sub-steps the environment can fail: every file-system call and every
\* control-utility invocation of the backend (the pure parse and the deferred
\* cleanup cannot)
Faults ==
  {NoFault} \cup
  (CASE backend = "windows" ->
          {"MkdirTemp", "WriteFile task.xml", "CREATE /XML", "END", "DELETE /F", "RUN",
           "QUERY /XML", "QUERY /FO"}
     [] backend = "linux" ->
          {"Atoi", "MkdirAll /var/svc.d", "MkdirAll log", "Chown", "WriteFile run",
           "WriteFile log/run", "Open", "OpenFile", "Copy", "Mkdir logdir",
           "WriteFile down", "Symlink", "svstat", "svstat log", "svc -u", "svc -d",
           "svc -d log", "Remove down", "RemoveAll service", "RemoveAll /var/svc.d",
           "ReadFile run"}
     [] backend = "openbsd" ->
          {"Open", "OpenFile", "Copy", "WriteFile rc", "rcctl stop", "rcctl disable",
           "rcctl enable", "rcctl start", "rcctl get", "rcctl check", "Remove rc"})

(***************************************************************************)
(* Lifecycle phases of the service on a host state                         *)
(***************************************************************************)
Installed(s) ==
  CASE backend = "windows" -> s.task
    [] backend = "linux" -> s.symlink /\ s.ctlDir
    [] backend = "openbsd" -> s.rcFile # NoFile

\* None of the registration artifacts exists
Absent(s) ==
  CASE backend = "windows" -> ~s.task
    [] backend = "linux" -> ~s.symlink /\ ~s.ctlDir
    [] backend = "openbsd" -> s.rcFile = NoFile

Running(s) ==
  CASE backend = "windows" -> s.taskRunning
    [] backend = "linux" -> s.svcUp
    [] backend = "openbsd" -> s.rcRunning

Phase(s) ==
  IF Installed(s) THEN (IF Running(s) THEN "Running" ELSE "Stopped")
  ELSE IF Running(s) THEN "Orphan"
  ELSE IF Absent(s) THEN "Absent"
  ELSE "Partial"

\* The enable/disable switch: the down sentinel, the rc.conf flags
Enabled(s) ==
  CASE backend = "windows" -> s.task
    [] backend = "linux" -> ~s.downFile
    [] backend = "openbsd" -> s.rcEnabled

Host == Run(NoFault)

(***************************************************************************)
(* Actions                                                                 *)
(***************************************************************************)
Commit(r) ==
  /\ task' = r.task
  /\ taskXml' = r.taskXml
  /\ taskRunning' = r.taskRunning
  /\ tempDir' = r.tempDir
  /\ tempXml' = r.tempXml
  /\ ctlDir' = r.ctlDir
  /\ runFile' = r.runFile
  /\ logRunFile' = r.logRunFile
  /\ downFile' = r.downFile
  /\ symlink' = r.symlink
  /\ logDir' = r.logDir
  /\ svcUp' = r.svcUp
  /\ logUp' = r.logUp
  /\ rcFile' = r.rcFile
  /\ rcEnabled' = r.rcEnabled
  /\ rcRunning' = r.rcRunning
  /\ bin' = r.bin

\* One call of a lifecycle operation, from entry to return
Call(op, fault) ==
  \E r \in {Handler(op, Run(fault))} :
    /\ Commit(r)
    /\ last' = [op |-> op, pre |-> Phase(Host), enabled |-> Enabled(Host), err |-> r.err,
                running |-> r.running, out |-> r.out, trace |-> r.trace]
    /\ UNCHANGED <<backend, Executable, probe, procs>>

Install == \E fault \in Faults : Call("Install", fault)
Delete == \E fault \in Faults : Call("Delete", fault)
Start == \E fault \in Faults : Call("Start", fault)
Stop == \E fault \in Faults : Call("Stop", fault)
GetConfig == \E fault \in Faults : Call("GetConfig", fault)
Query == \E fault \in Faults : Call("Query", fault)

NoProbe == [fn |-> "none", in |-> <<>>, out |-> <<>>]

\* No concurrent invocations under way
NoProcs == [delete |-> "none", start |-> "none", running |-> FALSE, order |-> <<>>]

Init ==
  /\ \E goos \in GOOS, command \in ExecutablePaths :
       /\ NewDaemon(NewDaemonCall(goos, command)).err = NoErr
       /\ backend = NewDaemon(NewDaemonCall(goos, command)).daemon.variant
       /\ Executable = NewDaemon(NewDaemonCall(goos, command)).daemon.Executable
  /\ probe = NoProbe
  /\ task = FALSE /\ taskXml = NoFile /\ taskRunning = FALSE
  /\ tempDir = FALSE /\ tempXml = NoFile
  /\ ctlDir = FALSE /\ runFile = NoFile /\ logRunFile = NoFile /\ downFile = FALSE
  /\ symlink = FALSE /\ logDir = FALSE /\ svcUp = FALSE /\ logUp = FALSE
  /\ rcFile = NoFile /\ rcEnabled = FALSE /\ rcRunning = FALSE
  /\ bin = [p \in ExecutablePaths |-> IF p = Executable THEN "prog" ELSE "absent"]
  /\ last = [op |-> "none", pre |-> "Absent", enabled |-> FALSE, err |-> NoErr,
             running |-> FALSE, out |-> <<>>, trace |-> <<>>]
  /\ procs = NoProcs

Next == Install \/ Delete \/ Start \/ Stop \/ GetConfig \/ Query

Spec == Init /\ [][Next]_vars

(***************************************************************************)
(* The CLI query command (cobra.go)                                        *)
(***************************************************************************)
\* daemonQueryCmd that reports a Query error in quiet mode too
daemonQueryCmd_alwaysCheck(quiet, q) ==
  IF q.err # NoErr
    THEN [exit |-> 1, stdout |-> <<>>, stderr |-> <<"Error:", q.err>>]
  ELSE IF q.running
    THEN [exit |-> 0, stdout |-> IF quiet THEN <<>> ELSE <<"running">>, stderr |-> <<>>]
  ELSE [exit |-> 1, stdout |-> IF quiet THEN <<>> ELSE <<"stopped">>, stderr |-> <<>>]

\* daemonQueryCmd.Run after d.Query() returned q = (running, err): the exit
\* status of the process and what it printed.  cobra.CheckErr(err) prints
\* "Error:" and the error and exits with status 1 when err is not nil.
daemonQueryCmd(quiet, q) ==
  IF ~quiet /\ q.err # NoErr
    THEN [exit |-> 1, stdout |-> <<>>, stderr |-> <<"Error:", q.err>>]
  ELSE IF q.running
    THEN [exit |-> 0, stdout |-> IF quiet THEN <<>> ELSE <<"running">>, stderr |-> <<>>]
  ELSE [exit |-> 1, stdout |-> IF quiet THEN <<>> ELSE <<"stopped">>, stderr |-> <<>>]

(***************************************************************************)
(* Single functions on chosen inputs.  Each action calls one function of   *)
(* the program with an input drawn from a bounded set (a constructor call, *)
(* a template, the answer of a utility) and records input and result in    *)
(* probe; the host is left alone.  One function is called per run.         *)
(***************************************************************************)
MaxTemplateLen == 2
MaxFields == 4

\* Templates: up to MaxTemplateLen tokens, each a literal or a placeholder
TemplateTokens == {Lit("text")} \cup {Var(k) : k \in TemplateKeys \cup OtherKeys}
Templates == UNION {[1..n -> TemplateTokens] : n \in 1..MaxTemplateLen}

\* The mapping closure of the backend in use
Mapping ==
  CASE backend = "windows" -> WindowsTask_mapping
    [] backend = "linux" -> Daemontools_mapping
    [] backend = "openbsd" -> RCDaemon_mapping

CRLF == <<"\r", "\n">>

\* What a utility that ran and exited 0 printed / a utility that failed
Answer(stdout) ==
  [given |-> TRUE, run |-> "ok", code |-> 0, stdout |-> stdout, stderr |-> <<>>]
Failure(run, code, stdout, stderr) ==
  [given |-> TRUE, run |-> run, code |-> code, stdout |-> stdout, stderr |-> stderr]

\* schtasks /QUERY /FO csv /NH: lines of 1..MaxFields comma-separated fields
CsvFirsts == {QuotedTaskName, <<"\"", "\\", "other", "\"">>, <<"\\">> \o Name}
CsvThirds == {<<"\"", "Running", "\"">>, <<"\"", "Ready", "\"">>, <<"Running">>}
CsvLine(first, n, third) ==
  Join([i \in 1..n |-> IF i = 1 THEN first
                       ELSE IF i = 3 THEN third ELSE <<"\"", "N/A", "\"">>], ",")
CsvLine3(first, third) == CsvLine(first, 3, third)
CsvLines ==
  {CsvLine(f, n, th) : f \in CsvFirsts, n \in 1..MaxFields, th \in CsvThirds}
CsvStdouts ==
  {<<>>, <<"INFO: ", "There are no scheduled tasks", "\r", "\n">>}
    \cup {l \o CRLF : l \in CsvLines}
    \cup {<<" ">> \o l : l \in CsvLines}
    \cup {l \o CRLF \o CsvLine3(QuotedTaskName, <<"\"", "Running", "\"">>) \o CRLF
           : l \in CsvLines}
StderrTexts == {<<>>, <<" ", "\r", "\n">>, <<"ERROR: ", "Access is denied.", "\r", "\n">>}
SchtasksReplies ==
  {Answer(o) : o \in CsvStdouts}
    \cup {Failure(run, 1, CsvLine3(QuotedTaskName, <<"\"", "Running", "\"">>) \o CRLF, e)
           : run \in {"exit", "spawn"}, e \in StderrTexts}

\* svstat <dir>: a first field, white space, and the rest of the line
SvstatFirsts(dir) ==
  {dir \o <<":">>, dir, <<"/service/", "other", ":">>, dir \o <<":", "up">>}
SvstatRests ==
  { <<>>, <<"up">>, <<"down">>, <<"Up">>,
    <<"up", " ", "(pid 123)", " ", "5", " ", "seconds">>,
    <<"down", " ", "5", " ", "seconds,", " ", "normally", " ", "up">>,
    <<"unable", " ", "to", " ", "chdir:", " ", "file does not exist">> }
SvstatStdouts(dir) ==
  {<<>>, <<"\n">>}
    \cup {f \o sep \o r \o <<"\n">>
           : f \in SvstatFirsts(dir), sep \in {<<" ">>, <<"\t", " ">>}, r \in SvstatRests}
SvstatReplies(dir) ==
  {Answer(o) : o \in SvstatStdouts(dir)}
    \cup {Failure(run, 111, dir \o <<":", " ", "up", "\n">>, <<>>) : run \in {"exit", "spawn"}}

\* rcctl check <name>: exit 0, exit 1, another exit status, killed by a signal
\* (ExitCode() is -1), or not run at all
RcctlReplies ==
  {Failure("ok", 0, o, <<>>) : o \in {<<>>, Name \o <<"(ok)", "\n">>}}
    \cup {Failure("exit", c, o, <<>>)
           : c \in {1, 2, -1}, o \in {<<>>, Name \o <<"(failed)", "\n">>}}
    \cup {Failure("spawn", -1, <<>>, <<>>)}

\* What schtasks.exe can answer to any verb
InvokerReplies ==
  {Failure(r.run, r.code, o, e)
     : r \in {[run |-> "ok", code |-> 0], [run |-> "exit", code |-> 1],
              [run |-> "spawn", code |-> -1]},
       o \in {<<>>, <<" ", "SUCCESS: ", "done", "\r", "\n">>, <<"a", "\n", "b">>},
       e \in StderrTexts}

\* The answers a Query of the backend in use can get
QueryReplies ==
  {NoReply} \cup
  (CASE backend = "windows" -> SchtasksReplies
     [] backend = "linux" -> SvstatReplies(service)
     [] backend = "openbsd" -> RcctlReplies)

Probe(fn, in, out) ==
  /\ probe' = [fn |-> fn, in |-> in, out |-> out]
  /\ UNCHANGED <<backend, Executable, hostVars, last, procs>>

\* What a handler returned
Returned(r) ==
  [err |-> r.err, errText |-> r.errText, running |-> r.running, out |-> r.out]

ProbeNewDaemon ==
  /\ probe = NoProbe
  /\ \E in \in NewDaemonInputs : Probe("NewDaemon", in, NewDaemon(in))

ProbeExpand ==
  /\ probe = NoProbe
  /\ \E template \in Templates :
       Probe("Expand", [template |-> template], Expand(template, Mapping))

ProbeWindowsQuery ==
  /\ probe = NoProbe
  /\ backend = "windows"
  /\ \E reply \in SchtasksReplies :
       Probe("WindowsTask.Query", reply, Returned(WindowsTask_Query(RunWith(NoFault, reply))))

ProbeSvstat ==
  /\ probe = NoProbe
  /\ backend = "linux"
  /\ \E dir \in {service, serviceLog} : \E reply \in SvstatReplies(dir) :
       Probe("svstat", [dir |-> dir, reply |-> reply],
             Returned(svstat(RunWith(NoFault, reply), dir)))

ProbeRCQuery ==
  /\ probe = NoProbe
  /\ backend = "openbsd"
  /\ \E reply \in RcctlReplies :
       Probe("RCDaemon.Query", reply, Returned(RCDaemon_Query(RunWith(NoFault, reply))))

ProbeTaskScheduler ==
  /\ probe = NoProbe
  /\ backend = "windows"
  /\ \E reply \in InvokerReplies :
       \E call \in {<<"RUN", <<>> >>, <<"QUERY", <<"/XML", "ONE">> >>} :
         Probe("taskScheduler", reply,
               Returned(taskScheduler(RunWith(NoFault, reply), call[1], call[2])))

ProbeQueryCmd ==
  /\ probe = NoProbe
  /\ \E quiet \in BOOLEAN, reply \in QueryReplies :
       \E q \in {Returned(Handler("Query", RunWith(NoFault, reply)))} :
         Probe("daemon query", [quiet |-> quiet, running |-> q.running, err |-> q.err],
               daemonQueryCmd(quiet, q))

NextFn ==
  \/ ProbeNewDaemon
  \/ ProbeExpand
  \/ ProbeWindowsQuery
  \/ ProbeSvstat
  \/ ProbeRCQuery
  \/ ProbeTaskScheduler
  \/ ProbeQueryCmd

SpecFn == Init /\ [][NextFn]_vars

(***************************************************************************)
(* The CLI install command (cobra.go), as a step of the lifecycle          *)
(***************************************************************************)
\* The state the next call of a command starts on: the host as the previous
\* call left it, and fresh locals
Again(s) ==
  [s EXCEPT !.err = NoErr, !.errText = <<>>, !.trace = <<>>, !.running = FALSE,
            !.out = <<>>]

\* What a command notes of a call it made
Made(op, r) == [op |-> op, err |-> r.err]

\* Install command that deletes whenever force is set, found or not
daemonInstallCmd_forceBlind(force, s) ==
  LET g == Handler("GetConfig", s)
      d == Handler("Delete", Again(g))
      i == Handler("Install", Again(IF force THEN d ELSE g))
  IN  IF force /\ d.err # NoErr
        THEN [host |-> d, calls |-> <<Made("GetConfig", g), Made("Delete", d)>>, exit |-> 1]
      ELSE IF force
        THEN [host |-> i,
              calls |-> <<Made("GetConfig", g), Made("Delete", d), Made("Install", i)>>,
              exit |-> IF i.err = NoErr THEN 0 ELSE 1]
      ELSE [host |-> i, calls |-> <<Made("GetConfig", g), Made("Install", i)>>,
            exit |-> IF i.err = NoErr THEN 0 ELSE 1]

\* daemonInstallCmd.Run: GetConfig as the existence probe; Delete when it
\* succeeded and force is set, cobra.CheckErr ending the process if the Delete
\* failed; then Install, cobra.CheckErr on its error
daemonInstallCmd(force, s) ==
  LET g == Handler("GetConfig", s)
      d == Handler("Delete", Again(g))
      i == Handler("Install", Again(IF g.err = NoErr /\ force THEN d ELSE g))
  IN  IF g.err = NoErr /\ force /\ d.err # NoErr
        THEN [host |-> d, calls |-> <<Made("GetConfig", g), Made("Delete", d)>>, exit |-> 1]
      ELSE IF g.err = NoErr /\ force
        THEN [host |-> i,
              calls |-> <<Made("GetConfig", g), Made("Delete", d), Made("Install", i)>>,
              exit |-> IF i.err = NoErr THEN 0 ELSE 1]
      ELSE [host |-> i, calls |-> <<Made("GetConfig", g), Made("Install", i)>>,
            exit |-> IF i.err = NoErr THEN 0 ELSE 1]

\* One run of the install command on the host as it is
InstallCmd ==
  /\ probe = NoProbe
  /\ \E force \in BOOLEAN, fault \in Faults :
       \E r \in {daemonInstallCmd(force, Run(fault))} :
         /\ Commit(r.host)
         /\ probe' = [fn |-> "daemon install", in |-> [force |-> force],
                      out |-> [calls |-> r.calls, exit |-> r.exit]]
         /\ UNCHANGED <<backend, Executable, last, procs>>

\* Lifecycle calls, and then one run of the install command
Lifecycle == probe = NoProbe /\ Next

NextCli == Lifecycle \/ InstallCmd

SpecCli == Init /\ [][NextCli]_vars

(***************************************************************************)
(* Two invocations at once on one daemontools service: a Delete and a      *)
(* Start, each a process of its own, interleaved at their file-system      *)
(* calls and utility invocations.  Nothing in the code makes one wait for  *)
(* the other.                                                              *)
(***************************************************************************)
\* A step of one of the two invocations: its effect on the host, where the
\* invocation goes next (it returns at once on an error), and the order of steps
Step(who, tag, r, next, running) ==
  /\ Commit(r)
  /\ procs' = [procs EXCEPT ![who] = IF r.err # NoErr THEN "return" ELSE next,
                            !.running = running,
                            !.order = Append(@, tag)]
  /\ UNCHANGED <<backend, Executable, last, probe>>

\* The service is installed, and the two invocations begin
RaceBegin ==
  /\ procs = NoProcs /\ backend = "linux" /\ Phase(Host) = "Absent"
  /\ \E r \in {Handler("Install", Run(NoFault))} :
       /\ r.err = NoErr
       /\ Commit(r)
       /\ last' = [op |-> "Install", pre |-> Phase(Host), enabled |-> Enabled(Host),
                   err |-> r.err, running |-> r.running, out |-> r.out,
                   trace |-> r.trace]
  /\ procs' = [delete |-> "svstat", start |-> "enable", running |-> FALSE, order |-> <<>>]
  /\ UNCHANGED <<backend, Executable, probe>>

\* Delete: running, err := d.svstat(d.service)
DeleteProbe ==
  /\ procs.delete = "svstat"
  /\ \E r \in {svstat(Run(NoFault), service)} :
       Step("delete", "D svstat", r, "Stop", r.running)

\* Delete: if running { d.Stop() }
DeleteStop ==
  /\ procs.delete = "Stop"
  /\ \E r \in {IF procs.running THEN Daemontools_Stop(Run(NoFault)) ELSE Run(NoFault)} :
       Step("delete", IF procs.running THEN "D svc -d" ELSE "D skip", r, "svstat log", FALSE)

\* Delete: logRunning, err := d.svstat(<service>/log)
DeleteProbeLog ==
  /\ procs.delete = "svstat log"
  /\ \E r \in {svstat(Run(NoFault), serviceLog)} :
       Step("delete", "D svstat log", r, "svc -d log", r.running)

\* Delete: if logRunning { svc -d <service>/log }
DeleteStopLog ==
  /\ procs.delete = "svc -d log"
  /\ \E r \in {IF procs.running THEN svc(Run(NoFault), "-d", serviceLog)
                ELSE Run(NoFault)} :
       Step("delete", IF procs.running THEN "D svc -d log" ELSE "D skip log", r,
            "RemoveAll service", FALSE)

\* Delete: os.RemoveAll(d.service)
DeleteRemoveService ==
  /\ procs.delete = "RemoveAll service"
  /\ \E r \in {Daemontools_removeService(Run(NoFault))} :
       Step("delete", "D RemoveAll service", r, "RemoveAll /var/svc.d", FALSE)

\* Delete: os.RemoveAll(/var/svc.d/<name>), return nil
DeleteRemoveCtl ==
  /\ procs.delete = "RemoveAll /var/svc.d"
  /\ \E r \in {Daemontools_removeCtl(Run(NoFault))} :
       Step("delete", "D RemoveAll /var/svc.d", r, "return", FALSE)

\* Start: d.enable()
StartEnable ==
  /\ procs.start = "enable"
  /\ \E r \in {enable(Run(NoFault))} :
       Step("start", "S enable", r, "svc -u", procs.running)

\* Start: svc -u <service>, return nil
StartUp ==
  /\ procs.start = "svc -u"
  /\ \E r \in {svc(Run(NoFault), "-u", service)} :
       Step("start", "S svc -u", r, "return", procs.running)

NextRace ==
  \/ RaceBegin
  \/ DeleteProbe \/ DeleteStop \/ DeleteProbeLog \/ DeleteStopLog
  \/ DeleteRemoveService \/ DeleteRemoveCtl
  \/ StartEnable \/ StartUp

SpecRace == Init /\ [][NextRace]_vars

(***************************************************************************)
(* Properties                                                              *)
(***************************************************************************)
\* What a call of op returns when it is issued now, with the environment
\* failing sub-step fault
Now(op, fault) == Handler(op, Run(fault))

\* The sub-steps of a trace without the deferred cleanup
RECURSIVE Forward(_)
Forward(tr) ==
  IF tr = <<>> THEN <<>>
  ELSE IF Head(tr).step = "defer RemoveAll" THEN Forward(Tail(tr))
  ELSE <<Head(tr)>> \o Forward(Tail(tr))

\* No sub-step of the trace was failed by the environment
NoEnvFault(tr) == \A i \in 1..Len(tr) : ~tr[i].env

StopSteps == {"END", "svc -d", "rcctl stop"}
RemovalSteps == {"DELETE /F", "RemoveAll service", "RemoveAll /var/svc.d", "Remove rc"}

\* The value rendered for TASK_BIN: the executable path the service runs
RenderedBin ==
  CASE backend = "windows" -> WindowsTask_mapping["TASK_BIN"]
    [] backend = "linux" -> Daemontools_mapping["TASK_BIN"]
    [] backend = "openbsd" -> RCDaemon_mapping["TASK_BIN"]

\* C1: in every reachable state of every backend, whatever calls succeeded or
\* failed before, a running service is an installed one: there is no state
\* "running but not installed".
C1_RunningImpliesInstalled == Running(Host) => Installed(Host)

\* C1 witness: a Delete of a running service stopped it and then failed, leaving
\* it installed and stopped.
C1_Witness ==
  /\ last.op = "Delete" /\ last.pre = "Running" /\ last.err # NoErr
  /\ Phase(Host) = "Stopped"

\* C2: after a successful Install on an absent service the service is installed
\* and stopped, and a Query issued now never returns running=true and returns
\* no error unless the environment fails the Query's own invocation.
C2_InstallThenQueryNotRunning ==
  (last.op = "Install" /\ last.pre = "Absent" /\ last.err = NoErr) =>
    /\ Phase(Host) = "Stopped"
    /\ \A fault \in Faults :
         /\ ~Now("Query", fault).running
         /\ NoEnvFault(Now("Query", fault).trace) => Now("Query", fault).err = NoErr

\* C2 witness: Install has succeeded on an absent service.
C2_Witness ==
  last.op = "Install" /\ last.pre = "Absent" /\ last.err = NoErr /\ Installed(Host)

\* C3: on an installed service, after a successful Start a Query issued now
\* returns running=true, and after a successful Stop it returns running=false,
\* both without error (the environment not failing the Query's invocation).
C3_StartStopThenQuery ==
  /\ (last.op = "Start" /\ last.pre \in {"Stopped", "Running"} /\ last.err = NoErr) =>
       Now("Query", NoFault).running /\ Now("Query", NoFault).err = NoErr
  /\ (last.op = "Stop" /\ last.pre \in {"Stopped", "Running"} /\ last.err = NoErr) =>
       ~Now("Query", NoFault).running /\ Now("Query", NoFault).err = NoErr

\* C3 witness: a Stop has succeeded on a service that a Start had made running.
C3_Witness == last.op = "Stop" /\ last.pre = "Running" /\ last.err = NoErr

\* C4: a Delete of a running installed service executes no removal of a
\* registration artifact before a stop sub-step that succeeded, and after a
\* successful Delete a GetConfig issued now fails, whatever the environment.
C4_DeleteStopsBeforeRemoving ==
  /\ (last.op = "Delete" /\ last.pre = "Running") =>
       \A i \in 1..Len(last.trace) :
         last.trace[i].step \in RemovalSteps =>
           \E j \in 1..(i - 1) : last.trace[j].step \in StopSteps /\ last.trace[j].ok
  /\ (last.op = "Delete" /\ last.err = NoErr) =>
       \A fault \in Faults : Now("GetConfig", fault).err # NoErr

\* C4 witness: a Delete of a running service has succeeded.
C4_Witness ==
  last.op = "Delete" /\ last.pre = "Running" /\ last.err = NoErr /\ Phase(Host) = "Absent"

\* C5: after a successful Install on an absent service a GetConfig issued now
\* succeeds and returns non-empty content that contains the executable path and
\* the working directory.
C5_InstallThenGetConfig ==
  (last.op = "Install" /\ last.pre = "Absent" /\ last.err = NoErr) =>
    /\ Now("GetConfig", NoFault).err = NoErr
    /\ Now("GetConfig", NoFault).out # <<>>
    /\ Contains(Now("GetConfig", NoFault).out, RenderedBin)
    /\ Contains(Now("GetConfig", NoFault).out, Dir)

\* C6: a Delete of a service that is installed and stopped, with no sub-step
\* failed by the environment, returns no error and leaves the service absent.
C6_DeleteOfStopped ==
  (last.op = "Delete" /\ last.pre = "Stopped" /\ NoEnvFault(last.trace)) =>
    last.err = NoErr /\ Phase(Host) = "Absent"

\* C6 witness: a Delete of an installed, stopped service has returned no error.
C6_Witness == last.op = "Delete" /\ last.pre = "Stopped" /\ last.err = NoErr

\* C7: a Stop of a service that is installed and stopped returns an error only
\* when its control-utility invocation reported one (here: only when the
\* environment failed it), and the service stays installed and stopped.
C7_StopOfStopped ==
  (last.op = "Stop" /\ last.pre = "Stopped") =>
    /\ Phase(Host) = "Stopped"
    /\ last.err # NoErr <=> \E i \in 1..Len(last.trace) : ~last.trace[i].ok
    /\ NoEnvFault(last.trace) => last.err = NoErr

\* C7 witness: a Stop of an installed, stopped service has returned no error.
C7_Witness ==
  last.op = "Stop" /\ last.pre = "Stopped" /\ last.err = NoErr /\ Phase(Host) = "Stopped"

\* C8: a call of Query or GetConfig, whether it succeeds or fails, leaves the
\* whole host state as it was: artifacts, enable switch and run state.
C8_QueryGetConfigFrame ==
  [][last'.op \in {"Query", "GetConfig"} => hostVars' = hostVars]_vars

\* C8 witness: a Query of a running service has returned running=true and the
\* service is still running.
C8_Witness ==
  last.op = "Query" /\ last.pre = "Running" /\ last.running /\ Phase(Host) = "Running"

\* C9: in every call, a sub-step that failed is the last sub-step executed
\* (deferred cleanup aside) and the error returned is that sub-step's; a call
\* returns an error only when its last sub-step failed.
C9_FirstFailureAborts ==
  LET tr == Forward(last.trace) IN
  /\ \A i \in 1..Len(tr) : ~tr[i].ok => (i = Len(tr) /\ last.err = tr[i].step)
  /\ last.err # NoErr => (tr # <<>> /\ ~tr[Len(tr)].ok)

\* C9 witness: an rc.d Delete of a running service whose stop failed executed
\* neither the disable nor the removal of the rc script.
C9_Witness ==
  /\ backend = "openbsd" /\ last.op = "Delete" /\ last.pre = "Running"
  /\ last.err = "rcctl stop" /\ Len(last.trace) = 1
  /\ rcFile # NoFile /\ rcEnabled

\* C10 as claimed: the Windows Delete issues END and then DELETE /F, and the
\* DELETE /F is issued also when END failed.
C10_DeleteAfterFailedEnd ==
  (backend = "windows" /\ last.op = "Delete") =>
    /\ Len(last.trace) = 2
    /\ last.trace[1].step = "END"
    /\ last.trace[2].step = "DELETE /F"

\* C10 amended: the Windows Delete issues END first; it issues DELETE /F next
\* exactly when END succeeded; a failed END is returned and nothing follows it.
C10_DeleteOnlyAfterEnd ==
  (backend = "windows" /\ last.op = "Delete") =>
    /\ last.trace # <<>> /\ last.trace[1].step = "END"
    /\ last.trace[1].ok =>
         Len(last.trace) = 2 /\ last.trace[2].step = "DELETE /F"
    /\ ~last.trace[1].ok =>
         Len(last.trace) = 1 /\ last.err = "END" /\ task = (last.pre # "Absent")

\* C10 witness: the END of a Delete of a running task failed; the task is still
\* registered and running.
C10_Witness ==
  /\ backend = "windows" /\ last.op = "Delete" /\ last.pre = "Running"
  /\ last.err = "END" /\ task /\ taskRunning

\* Sub-step `step` was executed and succeeded before position i of trace tr
DoneBefore(tr, step, i) == \E j \in 1..(i - 1) : tr[j].step = step /\ tr[j].ok

C12_ArtifactsBeforeDependents ==
  (last.op = "Install") =>
    /\ \A i \in 1..Len(last.trace) :
         /\ last.trace[i].step = "CREATE /XML" =>
              DoneBefore(last.trace, "WriteFile task.xml", i)
         /\ last.trace[i].step = "Symlink" =>
              \A w \in {"WriteFile run", "WriteFile log/run", "Copy", "WriteFile down"} :
                DoneBefore(last.trace, w, i)
         /\ (last.trace[i].step = "WriteFile rc" /\ Executable # serviceBin) =>
              DoneBefore(last.trace, "Copy", i)
    /\ (last.err = NoErr /\ backend = "windows") =>
         taskXml = Expand(xmlTemplate, WindowsTask_mapping)
    /\ (last.err = NoErr /\ backend = "linux") =>
         /\ runFile = templateData(runTemplate)
         /\ logRunFile = templateData(logTemplate)
         /\ downFile
    /\ (last.err = NoErr /\ backend = "openbsd") =>
         rcFile = Expand(rcTemplate, RCDaemon_mapping)

\* C12 witness: an rc.d Install that had to copy the executable has succeeded.
C12_Witness ==
  /\ backend = "openbsd" /\ Executable # serviceBin
  /\ last.op = "Install" /\ last.err = NoErr
  /\ bin[serviceBin] = "prog" /\ rcFile # NoFile

\* C13: after a successful Install in the daemontools or the rc.d backend the
\* file at /usr/local/bin/<basename> holds what the source executable held when
\* Install began, whatever the source path.
C13_InstallCopiesExecutable ==
  [][(backend \in {"linux", "openbsd"} /\ last'.op = "Install" /\ last'.err = NoErr) =>
       bin'[serviceBin] = bin[Executable]]_vars

\* C14 as claimed: NewDaemon fails exactly when the user lookup fails, the
\* working directory is not an existing directory, or the platform is not
\* supported; it then constructs no backend, and otherwise constructs the
\* variant of the platform.
LookupFails(in) == ~in.currentOk \/ (in.username # <<>> /\ ~in.lookupOk)
WorkDir(in) ==
  IF in.dir # <<>> THEN in.dir
  ELSE IF in.username # <<>> THEN LookupUser.HomeDir ELSE CurrentUser.HomeDir
ClaimedFailure(in) ==
  LookupFails(in) \/ WorkDir(in) \notin in.dirs \/ in.goos \notin Backends

C14_NewDaemonFailsExactlyWhen ==
  (probe.fn = "NewDaemon") =>
    /\ probe.out.err # NoErr <=> ClaimedFailure(probe.in)
    /\ probe.out.err # NoErr => probe.out.daemon = NoDaemon
    /\ probe.out.err = NoErr => probe.out.daemon.variant = probe.in.goos

\* C14 amended: NewDaemon fails exactly in those three cases and, on windows,
\* when the logs directory under the owner's home cannot be created; it then
\* constructs no backend, and otherwise constructs the variant of the platform.
C14_NewDaemonFailsAlsoOnLogDir ==
  (probe.fn = "NewDaemon") =>
    /\ probe.out.err # NoErr <=>
         (ClaimedFailure(probe.in) \/ (probe.in.goos = "windows" /\ ~probe.in.mkdirOk))
    /\ probe.out.err # NoErr => probe.out.daemon = NoDaemon
    /\ probe.out.err = NoErr =>
         /\ probe.out.daemon.variant = probe.in.goos
         /\ probe.out.daemon.Dir = WorkDir(probe.in)

\* C14 witness: on windows, with the user found and the working directory in
\* place, NewDaemon failed on the logs directory.
C14_Witness ==
  /\ probe.fn = "NewDaemon" /\ probe.in.goos = "windows"
  /\ ~ClaimedFailure(probe.in) /\ ~probe.in.mkdirOk
  /\ probe.out.err = "MkdirAll logs" /\ probe.out.daemon = NoDaemon

\* The placeholders the backend in use recognizes and the values configured
RecognizedKeys == IF backend = "linux" THEN TemplateKeys ELSE TemplateKeys \ {"TASK_NAME"}
Configured(key) ==
  CASE key = "TASK_NAME" -> Name
    [] key = "TASK_USER" -> Username
    [] key = "TASK_UID" -> Uid
    [] key = "TASK_BIN" -> IF backend = "windows" THEN Executable ELSE serviceBin
    [] key = "TASK_ARGS" ->
         (CASE backend = "windows" -> WindowsTask_Args
            [] backend = "linux" -> Daemontools_Args
            [] backend = "openbsd" -> RCDaemon_Args)
    [] key = "TASK_DIR" -> Dir

\* text is a rendering of template: literals as they are, every recognized
\* placeholder as its configured value, every other placeholder as some
\* non-empty text that contains the placeholder's name
RECURSIVE Renders(_, _)
Renders(text, template) ==
  IF template = <<>> THEN text = <<>>
  ELSE IF Head(template).lit
    THEN /\ text # <<>> /\ Head(text) = Head(template).v
         /\ Renders(Tail(text), Tail(template))
  ELSE IF Head(template).v \in RecognizedKeys
    THEN LET value == Configured(Head(template).v) IN
         /\ Len(text) >= Len(value) /\ SubSeq(text, 1, Len(value)) = value
         /\ Renders(SubSeq(text, Len(value) + 1, Len(text)), Tail(template))
  ELSE \E n \in 1..Len(text) :
         /\ Contains(SubSeq(text, 1, n), <<Head(template).v>>)
         /\ Renders(SubSeq(text, n + 1, Len(text)), Tail(template))

\* C15: rendering a template replaces every recognized placeholder by its
\* configured value and every unrecognized one by a non-empty literal that
\* contains the placeholder's name; none is rendered as the empty string.
C15_RenderingIsTotal ==
  (probe.fn = "Expand") => Renders(probe.out, probe.in.template)

\* C15 witness: a template of one recognized and one unrecognized placeholder
\* was rendered.
C15_Witness ==
  /\ probe.fn = "Expand"
  /\ probe.in.template = <<Var("TASK_USER"), Var("TASK_NAME")>>
  /\ backend # "linux"
  /\ Len(probe.out) > Len(Username)
  /\ Contains(probe.out, <<"TASK_NAME">>)

\* C16: the Windows Query returns a boolean only when the run succeeded and
\* the trimmed output is one line of three comma-separated fields whose first
\* is the quoted, backslash-prefixed task name; running is then true exactly
\* when the third field is "Running" in quotes.  Anything else is an error.
C16_WindowsQueryShape ==
  (probe.fn = "WindowsTask.Query") =>
    LET o == TrimSpace(probe.in.stdout)
        commas == {i \in 1..Len(o) : o[i] = ","}
        first == CHOOSE i \in commas : \A j \in commas : i <= j
        second == CHOOSE i \in commas : \A j \in commas : j <= i
        shape == /\ probe.in.run = "ok"
                 /\ \A i \in 1..Len(o) : o[i] # "\n"
                 /\ Cardinality(commas) = 2
                 /\ SubSeq(o, 1, first - 1) = QuotedTaskName
    IN  /\ probe.out.err = NoErr <=> shape
        /\ probe.out.running <=>
             (shape /\ SubSeq(o, second + 1, Len(o)) = <<"\"", "Running", "\"">>)

\* C16 witness: an output of two well-formed lines, the first one saying
\* Running, was answered with an error.
C16_Witness ==
  /\ probe.fn = "WindowsTask.Query" /\ probe.in.run = "ok"
  /\ probe.in.stdout =
       CsvLine3(QuotedTaskName, <<"\"", "Running", "\"">>) \o CRLF
         \o CsvLine3(QuotedTaskName, <<"\"", "Running", "\"">>) \o CRLF
  /\ probe.out.err = "parse" /\ ~probe.out.running

\* The white-space separated fields of a text, as index ranges
FieldRanges(text) ==
  { r \in (1..Len(text)) \X (1..Len(text)) :
      /\ r[1] <= r[2]
      /\ \A k \in r[1]..r[2] : ~IsSpace(text[k])
      /\ r[1] = 1 \/ IsSpace(text[r[1] - 1])
      /\ r[2] = Len(text) \/ IsSpace(text[r[2] + 1]) }
NthField(text, n) ==
  LET r == CHOOSE q \in FieldRanges(text) :
             Cardinality({p \in FieldRanges(text) : p[1] < q[1]}) = n - 1
  IN  SubSeq(text, r[1], r[2])

\* C17: the status probe for directory d returns running=true exactly when the
\* first field of the output is d followed by ':' and the second is 'up';
\* running=false without error when the first field matches and the second is
\* anything else; an error when there are fewer than two fields, when the first
\* field is not d followed by ':', or when the utility failed.
C17_SvstatParse ==
  (probe.fn = "svstat") =>
    LET o == probe.in.reply.stdout
        matches == /\ probe.in.reply.run = "ok"
                   /\ Cardinality(FieldRanges(o)) >= 2
                   /\ NthField(o, 1) = probe.in.dir \o <<":">>
    IN  /\ probe.out.err = NoErr <=> matches
        /\ probe.out.running <=> (matches /\ NthField(o, 2) = <<"up">>)

\* C17 witness: an output that says up for another directory was answered
\* with an error.
C17_Witness ==
  /\ probe.fn = "svstat" /\ probe.in.reply.run = "ok"
  /\ Cardinality(FieldRanges(probe.in.reply.stdout)) >= 2
  /\ NthField(probe.in.reply.stdout, 1) # probe.in.dir \o <<":">>
  /\ NthField(probe.in.reply.stdout, 2) = <<"up">>
  /\ probe.out.err = "parse" /\ ~probe.out.running

\* C18: the rc.d Query returns running=true and no error exactly when the
\* check verb exited 0, running=false and no error for every other exit of the
\* check verb, and an error exactly when the utility could not be run.
C18_RCQueryExitCode ==
  (probe.fn = "RCDaemon.Query") =>
    /\ (probe.out.running /\ probe.out.err = NoErr) <=> probe.in.run = "ok"
    /\ probe.in.run = "exit" => (~probe.out.running /\ probe.out.err = NoErr)
    /\ probe.out.err # NoErr <=> probe.in.run = "spawn"
    /\ probe.out.err # NoErr => ~probe.out.running

\* C18 witness: a check verb that exited 2 was answered not running, no error.
C18_Witness ==
  /\ probe.fn = "RCDaemon.Query" /\ probe.in.run = "exit" /\ probe.in.code = 2
  /\ ~probe.out.running /\ probe.out.err = NoErr

\* C19: the Windows process invoker returns the trimmed stdout and no error
\* when the run succeeded; when it failed, an empty output and an error whose
\* message is the trimmed stderr if that is not empty and the run error if it is.
C19_InvokerResult ==
  (probe.fn = "taskScheduler") =>
    /\ probe.in.run = "ok" =>
         probe.out.err = NoErr /\ probe.out.out = TrimSpace(probe.in.stdout)
    /\ (probe.in.run # "ok" /\ TrimSpace(probe.in.stderr) # <<>>) =>
         /\ probe.out.err # NoErr /\ probe.out.out = <<>>
         /\ probe.out.errText = TrimSpace(probe.in.stderr)
    /\ (probe.in.run # "ok" /\ TrimSpace(probe.in.stderr) = <<>>) =>
         /\ probe.out.err # NoErr /\ probe.out.out = <<>>
         /\ probe.out.errText = RunError(probe.in.run)

\* C19 witness: a run that failed with text on stderr, and with text on stdout,
\* returned the stderr text as the error and no output.
C19_Witness ==
  /\ probe.fn = "taskScheduler" /\ probe.in.run = "exit"
  /\ probe.in.stdout # <<>>
  /\ probe.out.errText = <<"ERROR: ", "Access is denied.">>
  /\ probe.out.out = <<>>

\* C20: the query command exits 0 exactly when Query returned running=true and
\* 1 otherwise; in quiet mode a Query error is not reported and the exit status
\* follows the boolean; without quiet mode a Query error is reported and the
\* exit status is not 0.
C20_QueryCmdExitStatus ==
  (probe.fn = "daemon query") =>
    /\ probe.out.exit = (IF probe.in.running THEN 0 ELSE 1)
    /\ (probe.in.quiet /\ probe.in.err # NoErr) => probe.out.stderr = <<>>
    /\ probe.in.quiet => probe.out.stdout = <<>>
    /\ (~probe.in.quiet /\ probe.in.err # NoErr) =>
         probe.out.exit # 0 /\ probe.out.stderr # <<>>

\* C20 witness: in quiet mode a Query that failed was answered with exit
\* status 1 and nothing reported.
C20_Witness ==
  /\ probe.fn = "daemon query" /\ probe.in.quiet /\ probe.in.err # NoErr
  /\ probe.out.exit = 1 /\ probe.out.stderr = <<>>

\* C21: within one call of a lifecycle operation every control-utility
\* invocation and every file-system step is executed at most once (only the
\* parse of a probe's output, which is neither, occurs once per probe), so a
\* call ends after no more steps than the backend has kinds of step.
C21_NoRetry ==
  /\ \A i, j \in 1..Len(last.trace) :
       (i < j /\ last.trace[i].step = last.trace[j].step) => last.trace[i].step = "parse"
  /\ Cardinality({i \in 1..Len(last.trace) : last.trace[i].step = "parse"}) <= 2
  /\ Len(last.trace) <= Cardinality(Faults) + 2

\* C21 witness: a daemontools Install has run all its twelve steps, each once.
C21_Witness ==
  /\ backend = "linux" /\ last.op = "Install" /\ last.err = NoErr
  /\ Len(last.trace) = Cardinality({last.trace[i].step : i \in 1..Len(last.trace)})
  /\ Len(last.trace) > 8

\* C22: in the daemontools backend the down sentinel is in the supervision
\* directory after a successful Install and is not there after a successful
\* Start, and a Stop leaves it as it was; in the rc.d backend a Stop leaves the
\* enable switch as it was, so after Start then Stop the service is installed,
\* stopped and still enabled.
C22_StopKeepsEnableSwitch ==
  [][/\ (backend = "linux" /\ last'.op = "Install" /\ last'.err = NoErr) =>
          (symlink' /\ downFile')
     /\ (backend = "linux" /\ last'.op = "Start" /\ last'.err = NoErr) =>
          ~(symlink' /\ downFile')
     /\ (last'.op = "Stop") =>
          (downFile' = downFile /\ symlink' = symlink /\ rcEnabled' = rcEnabled)
     /\ (backend = "openbsd" /\ last.op = "Start" /\ last.err = NoErr
          /\ last'.op = "Stop" /\ last'.err = NoErr) =>
          (rcFile' # NoFile /\ ~rcRunning' /\ rcEnabled')
    ]_vars

\* C22 witness: a daemontools Stop of a running, enabled service has succeeded
\* and the sentinel is still absent.
C22_Witness ==
  /\ backend = "linux" /\ last.op = "Stop" /\ last.pre = "Running" /\ last.enabled
  /\ last.err = NoErr /\ symlink /\ ~downFile /\ ~svcUp

\* C23: the daemontools Delete probes the main service first and signals it
\* down exactly when the probe reported it running; then probes the log
\* supervisor and signals it down exactly when that probe reported it running;
\* removes the symlink only after all of that succeeded, and the control
\* directory only after the symlink; a failed probe or stop leaves both.
C23_DeleteProbesThenRemoves ==
  [][(backend = "linux" /\ last'.op = "Delete") =>
       LET tr == last'.trace
           mainUp == svstat(Run(NoFault), service).running
           logRunning == svstat(Run(NoFault), serviceLog).running
       IN  /\ tr[1].step = "svstat"
           /\ \A i \in 1..Len(tr) :
                /\ tr[i].step = "svc -d" => (mainUp /\ DoneBefore(tr, "svstat", i))
                /\ tr[i].step = "svstat log" =>
                     /\ DoneBefore(tr, "svstat", i)
                     /\ mainUp <=> DoneBefore(tr, "svc -d", i)
                /\ tr[i].step = "svc -d log" =>
                     (logRunning /\ DoneBefore(tr, "svstat log", i))
                /\ tr[i].step = "RemoveAll service" =>
                     /\ \A j \in 1..(i - 1) : tr[j].ok
                     /\ DoneBefore(tr, "svstat log", i)
                     /\ logRunning <=> DoneBefore(tr, "svc -d log", i)
                /\ tr[i].step = "RemoveAll /var/svc.d" =>
                     DoneBefore(tr, "RemoveAll service", i)
           /\ (\E i \in 1..Len(tr) :
                 /\ ~tr[i].ok
                 /\ tr[i].step \in {"svstat", "svstat log", "parse", "svc -d", "svc -d log"})
                => (symlink' = symlink /\ ctlDir' = ctlDir)
    ]_vars

\* C23 witness: a Delete of a service whose main and log services both ran has
\* probed and stopped both and removed the symlink and the control directory.
C23_Witness ==
  /\ backend = "linux" /\ last.op = "Delete" /\ last.err = NoErr
  /\ [i \in 1..Len(last.trace) |-> last.trace[i].step] =
       <<"svstat", "parse", "svc -d", "svstat log", "parse", "svc -d log",
         "RemoveAll service", "RemoveAll /var/svc.d">>
  /\ ~symlink /\ ~ctlDir

\* C24: a daemontools Install of a service whose supervision symlink exists
\* returns an error; when nothing else fails the error is the Symlink's, and
\* by then run and log/run are rewritten, the binary is copied again and the
\* down sentinel is back, while the symlink and the run state are as before.
C24_ReinstallFailsAfterRewriting ==
  [][(backend = "linux" /\ last'.op = "Install" /\ symlink /\ ctlDir) =>
       /\ last'.err # NoErr
       /\ NoEnvFault(last'.trace) =>
            /\ last'.err = "Symlink"
            /\ \A w \in {"WriteFile run", "WriteFile log/run", "Copy", "WriteFile down"} :
                 DoneBefore(last'.trace, w, Len(last'.trace))
            /\ runFile' = templateData(runTemplate)
            /\ logRunFile' = templateData(logTemplate)
            /\ downFile'
            /\ symlink' /\ svcUp' = svcUp
    ]_vars

\* C24 witness: an Install of an installed, stopped, enabled service has failed
\* at the symlink, and the down sentinel is back.
C24_Witness ==
  /\ backend = "linux" /\ last.op = "Install" /\ last.pre = "Stopped" /\ last.enabled
  /\ last.err = "Symlink" /\ downFile /\ symlink /\ ~svcUp

\* C26: no operation other than Install creates a registration artifact (task
\* entry, supervision symlink, control directory, down sentinel, rc script),
\* whether it succeeds or fails; from Absent such a call leaves the service
\* Absent and not running.
C26_OnlyInstallCreates ==
  [][(last'.op # "Install") =>
       /\ task' => task
       /\ symlink' => symlink
       /\ ctlDir' => ctlDir
       /\ downFile' => downFile
       /\ rcFile' # NoFile => rcFile # NoFile
       /\ Phase(Host) = "Absent" =>
            /\ ~task' /\ ~symlink' /\ ~ctlDir' /\ ~downFile' /\ rcFile' = NoFile
            /\ ~taskRunning' /\ ~svcUp' /\ ~rcRunning'
    ]_vars

\* C26 witness: a daemontools Start of an absent service returned no error and
\* the service is still absent.
C26_Witness ==
  /\ backend = "linux" /\ last.op = "Start" /\ last.pre = "Absent" /\ last.err = NoErr
  /\ Phase(Host) = "Absent" /\ ~ctlDir /\ ~downFile /\ ~symlink

\* C25: the install command probes with GetConfig first; it calls Delete
\* exactly when the probe succeeded and force is set; if that Delete fails it
\* does not call Install; in every other case it calls Install, straight after
\* the probe when no Delete was called.
C25_InstallCmdDeletesOnlyIfFoundAndForced ==
  (probe.fn = "daemon install") =>
    LET calls == probe.out.calls
        found == calls[1].err = NoErr
    IN  /\ calls[1].op = "GetConfig"
        /\ (\E i \in 1..Len(calls) : calls[i].op = "Delete") <=> (found /\ probe.in.force)
        /\ (found /\ probe.in.force) =>
             /\ calls[2].op = "Delete"
             /\ calls[2].err # NoErr => (Len(calls) = 2 /\ probe.out.exit # 0)
             /\ calls[2].err = NoErr => (Len(calls) = 3 /\ calls[3].op = "Install")
        /\ ~(found /\ probe.in.force) => (Len(calls) = 2 /\ calls[2].op = "Install")
        /\ probe.out.exit = 0 <=>
             (calls[Len(calls)].op = "Install" /\ calls[Len(calls)].err = NoErr)

\* C25 witness: with force set the probe found the service, the Delete failed,
\* and Install was not called.
C25_Witness ==
  /\ probe.fn = "daemon install" /\ probe.in.force
  /\ Len(probe.out.calls) = 2
  /\ probe.out.calls[1] = [op |-> "GetConfig", err |-> NoErr]
  /\ probe.out.calls[2].op = "Delete" /\ probe.out.calls[2].err # NoErr
  /\ probe.out.exit = 1 /\ Installed(Host)

\* The service runs and both its symlink and its control directory are gone
Orphaned == svcUp /\ ~symlink /\ ~ctlDir

\* C27: a Delete and a Start on one daemontools service interleave freely, and
\* the service ends up running with its symlink and control directory removed
\* exactly through the interleaving of the claim: the Start's up signal after
\* the Delete's probe of the main service and before its removal of the symlink.
C27_OrphanedByInterleaving ==
  Orphaned =>
    \E i, j, k \in 1..Len(procs.order) :
      /\ i < j /\ j < k
      /\ procs.order[i] = "D svstat"
      /\ procs.order[j] = "S svc -u"
      /\ procs.order[k] = "D RemoveAll service"

\* C27 witness: the Start's enable and up signal fell between the Delete's
\* probe and its removal of the symlink; both invocations have returned, and the
\* service is running with its symlink and control directory removed.
C27_Witness ==
  /\ Orphaned
  /\ procs.delete = "return" /\ procs.start = "return"
  /\ \E i, e, j, k \in 1..Len(procs.order) :
       /\ i < e /\ e < j /\ j < k
       /\ procs.order[i] = "D svstat"
       /\ procs.order[e] = "S enable"
       /\ procs.order[j] = "S svc -u"
       /\ procs.order[k] = "D RemoveAll service"

====
